---- MODULE Spec2Model ----
(***************************************************************************)
(* The statement parser of agents/pdf_reader.py: PDFReaderTool.            *)
(* _extract_financial_data and the summary PDFReaderTool._run builds from  *)
(* its result.  Text is kept as text: a statement is a sequence of lines,  *)
(* each a string, and every pattern of the source is matched character by  *)
(* character, in the order Python's re tries the alternatives.             *)
(* Amounts are counted in cents (a float with two decimals).               *)
(***************************************************************************)
EXTENDS Integers, Sequences, FiniteSets, TLC

VARIABLES
    text,             \* the statement being parsed, as its lines
    pc,               \* where the parse is
    i,                \* the index of the line the loop is at
    is_credit_card,
    current_section,
    financial_data,
    period_match,     \* which of period_patterns matched (0: none)
    summary,          \* the summary of _run, once built
    trace,            \* what each line of this parse did (observation only)
    history,          \* the text and the outcome of every parse so far (observation only)
    calls,            \* how many times the parser has been entered
    date_given,         \* the argument of a call of format_date
    formatted,        \* what the call returned, once it has
    today,            \* the year the statements are processed in
    pdf_files,        \* process_files: the files found, then sorted
    docs,             \* what each file holds, and what the LLM does when asked about it
    bpc,              \* where process_files is
    pos,              \* the index of the file the loop of process_files is at
    analyses,
    results,          \* what analyze_pdf did for each file so far (observation only)
    report            \* the two groups of statements of the report, once generated

\* the variables of the parser, of a call of format_date and of process_files
pvars == <<text, pc, i, is_credit_card, current_section, financial_data, period_match,
           summary, trace, history, calls>>

fvars == <<date_given, formatted, today>>

bvars == <<pdf_files, docs, bpc, pos, analyses, results, report>>

vars == <<pvars, fvars, bvars>>

(***************************************************************************)
(* Characters, and the str methods the parser uses.                        *)
(***************************************************************************)
Digit == {"0", "1", "2", "3", "4", "5", "6", "7", "8", "9"}
LowerAlpha == {"a", "b", "c", "d", "e", "f", "g", "h", "i", "j", "k", "l", "m",
               "n", "o", "p", "q", "r", "s", "t", "u", "v", "w", "x", "y", "z"}
UpperAlpha == {"A", "B", "C", "D", "E", "F", "G", "H", "I", "J", "K", "L", "M",
               "N", "O", "P", "Q", "R", "S", "T", "U", "V", "W", "X", "Y", "Z"}
Space == {" ", "\t", "\n"}
Word == Digit \cup LowerAlpha \cup UpperAlpha \cup {"_"}
Punct == {"$", ",", ".", "-", "/", ":", "#", "%", "&", "'", "*"}
\* what . matches: anything but a newline
AnyChar == (Word \cup Punct \cup Space) \ {"\n"}

ToLower == [c \in UpperAlpha |->
    CASE c = "A" -> "a" [] c = "B" -> "b" [] c = "C" -> "c" [] c = "D" -> "d"
      [] c = "E" -> "e" [] c = "F" -> "f" [] c = "G" -> "g" [] c = "H" -> "h"
      [] c = "I" -> "i" [] c = "J" -> "j" [] c = "K" -> "k" [] c = "L" -> "l"
      [] c = "M" -> "m" [] c = "N" -> "n" [] c = "O" -> "o" [] c = "P" -> "p"
      [] c = "Q" -> "q" [] c = "R" -> "r" [] c = "S" -> "s" [] c = "T" -> "t"
      [] c = "U" -> "u" [] c = "V" -> "v" [] c = "W" -> "w" [] c = "X" -> "x"
      [] c = "Y" -> "y" [] c = "Z" -> "z"]

At(s, n) == SubSeq(s, n, n)

LowerCh(c) == IF c \in UpperAlpha THEN ToLower[c] ELSE c

\* str.lower()
RECURSIVE Lower(_)
Lower(s) ==
    IF Len(s) = 0 THEN ""
    ELSE IF Len(s) = 1 THEN LowerCh(s)
    ELSE LET h == Len(s) \div 2
         IN  Lower(SubSeq(s, 1, h)) \o Lower(SubSeq(s, h + 1, Len(s)))

\* t in s
Contains(s, t) ==
    \E n \in 1..(Len(s) - Len(t) + 1) : SubSeq(s, n, n + Len(t) - 1) = t

\* any(t in s for t in ts)
ContainsAny(s, ts) == \E n \in 1..Len(ts) : Contains(s, ts[n])

\* s.startswith(t)
StartsWith(s, t) == Len(t) <= Len(s) /\ SubSeq(s, 1, Len(t)) = t

\* the positions of s that hold a character outside cs
Outside(s, cs) == {n \in 1..Len(s) : At(s, n) \notin cs}

MinOf(ns) == CHOOSE n \in ns : \A m \in ns : n <= m
MaxOf(ns) == CHOOSE n \in ns : \A m \in ns : n >= m

\* str.strip()
Strip(s) ==
    LET keep == Outside(s, Space)
    IN  IF keep = {} THEN "" ELSE SubSeq(s, MinOf(keep), MaxOf(keep))

\* s.replace(c, '') for a single character c
RECURSIVE Remove(_, _)
Remove(s, c) ==
    IF Len(s) = 0 THEN ""
    ELSE IF Len(s) = 1 THEN (IF s = c THEN "" ELSE s)
    ELSE LET h == Len(s) \div 2
         IN  Remove(SubSeq(s, 1, h), c) \o Remove(SubSeq(s, h + 1, Len(s)), c)

\* s.split(c) for a single character c: the pieces between the occurrences of c
RECURSIVE SplitOn(_, _)
SplitOn(s, c) ==
    LET at == {n \in 1..Len(s) : At(s, n) = c}
    IN  IF at = {} THEN <<s>>
        ELSE LET n == MinOf(at)
             IN  <<SubSeq(s, 1, n - 1)>> \o SplitOn(SubSeq(s, n + 1, Len(s)), c)

\* s.split(): the runs of non-whitespace characters
RECURSIVE SplitWs(_)
SplitWs(s) ==
    LET keep == Outside(s, Space)
    IN  IF keep = {} THEN <<>>
        ELSE LET b == MinOf(keep)
                 stops == {n \in b..Len(s) : At(s, n) \in Space}
                 e == IF stops = {} THEN Len(s) + 1 ELSE MinOf(stops)
             IN  <<SubSeq(s, b, e - 1)>> \o SplitWs(SubSeq(s, e, Len(s)))

\* s.zfill(2)
Zfill2(s) == IF Len(s) = 0 THEN "00" ELSE IF Len(s) = 1 THEN "0" \o s ELSE s

\* '\n'.join(lines)
RECURSIVE Join(_)
Join(ls) ==
    IF ls = <<>> THEN ""
    ELSE IF Len(ls) = 1 THEN ls[1]
    ELSE ls[1] \o "\n" \o Join(Tail(ls))

(***************************************************************************)
(* Regular expressions as data, matched the way Python's re matches them:  *)
(* a backtracking search that tries the alternatives in priority order.    *)
(* M yields every way the expression matches s from position n, the       *)
(* preferred way first, each as the end position and the capture groups;   *)
(* the match re reports is the first of them at the leftmost position that *)
(* has one.                                                                *)
(***************************************************************************)
Ch(cs) == [k |-> "ch", s |-> cs]
Lit(t) == [k |-> "lit", t |-> t]
Cat(a) == [k |-> "cat", a |-> a]
Alt(a) == [k |-> "alt", a |-> a]
Rep(r, lo, hi) == [k |-> "rep", r |-> r, lo |-> lo, hi |-> hi, greedy |-> TRUE]
Lazy(r, lo, hi) == [k |-> "rep", r |-> r, lo |-> lo, hi |-> hi, greedy |-> FALSE]
Grp(n, r) == [k |-> "grp", n |-> n, r |-> r]
Bol == [k |-> "bol"]
Eol == [k |-> "eol"]
Unbounded == -1
Plus(r) == Rep(r, 1, Unbounded)
Star(r) == Rep(r, 0, Unbounded)
Opt(r) == Rep(r, 0, 1)

NoGroups == [n \in 1..4 |-> <<0, 0>>]

\* the characters a match of re can start with, and whether re can match
\* without consuming a character
RECURSIVE First(_)
RECURSIVE FirstCat(_, _)
FirstCat(a, n) ==
    IF n > Len(a) THEN [cs |-> {}, empty |-> TRUE]
    ELSE LET f == First(a[n])
         IN  IF f.empty
             THEN [cs |-> f.cs \cup FirstCat(a, n + 1).cs, empty |-> FirstCat(a, n + 1).empty]
             ELSE f

First(re) ==
    CASE re.k = "ch" -> [cs |-> re.s, empty |-> FALSE]
      [] re.k = "lit" -> IF re.t = "" THEN [cs |-> {}, empty |-> TRUE]
                         ELSE [cs |-> {At(re.t, 1)}, empty |-> FALSE]
      [] re.k = "cat" -> FirstCat(re.a, 1)
      [] re.k = "alt" -> [cs |-> UNION {First(re.a[n]).cs : n \in 1..Len(re.a)},
                          empty |-> \E n \in 1..Len(re.a) : First(re.a[n]).empty]
      [] re.k = "grp" -> First(re.r)
      [] re.k = "rep" -> [cs |-> First(re.r).cs, empty |-> re.lo = 0 \/ First(re.r).empty]
      [] OTHER -> [cs |-> {}, empty |-> TRUE]

\* the states of sts from which an expression whose First is f can match
Viable(f, s, sts) ==
    IF f.empty \/ Len(sts) < 2 THEN sts
    ELSE SelectSeq(sts, LAMBDA st : st.e <= Len(s) /\ At(s, st.e) \in f.cs)

RECURSIVE M(_, _, _, _)
RECURSIVE MAll(_, _, _)
RECURSIVE MCat(_, _, _, _)
RECURSIVE MAlt(_, _, _, _, _)

\* the matches of re from each of the states sts, in their order
MAll(re, s, sts) ==
    IF Len(sts) = 0 THEN <<>>
    ELSE IF Len(sts) = 1 THEN M(re, s, sts[1].e, sts[1].c)
    ELSE LET h == Len(sts) \div 2
         IN  MAll(re, s, SubSeq(sts, 1, h)) \o MAll(re, s, SubSeq(sts, h + 1, Len(sts)))

MCat(a, n, s, sts) ==
    IF n > Len(a) \/ sts = <<>> THEN sts
    ELSE MCat(a, n + 1, s, MAll(a[n], s, Viable(First(a[n]), s, sts)))

MAlt(a, n, s, p, c) ==
    IF n > Len(a) THEN <<>> ELSE M(a[n], s, p, c) \o MAlt(a, n + 1, s, p, c)

\* the first position from p on whose character is not in cs (Len(s) + 1
\* when there is none), looked for a few characters at a time
RECURSIVE RunEnd(_, _, _)
RunEnd(s, p, cs) ==
    IF p > Len(s) THEN Len(s) + 1
    ELSE LET last == IF p + 7 < Len(s) THEN p + 7 ELSE Len(s)
             stops == {n \in p..last : At(s, n) \notin cs}
         IN  IF stops = {} THEN RunEnd(s, last + 1, cs) ELSE MinOf(stops)

\* how many characters of s from position p on are in cs
RunLen(s, p, cs) == RunEnd(s, p, cs) - p

M(re, s, p, c) ==
    CASE re.k = "ch" ->
           IF p <= Len(s) /\ At(s, p) \in re.s THEN <<[e |-> p + 1, c |-> c]>> ELSE <<>>
      [] re.k = "lit" ->
           IF p + Len(re.t) - 1 <= Len(s) /\ SubSeq(s, p, p + Len(re.t) - 1) = re.t
           THEN <<[e |-> p + Len(re.t), c |-> c]>> ELSE <<>>
      [] re.k = "cat" -> MCat(re.a, 1, s, <<[e |-> p, c |-> c]>>)
      [] re.k = "alt" -> MAlt(re.a, 1, s, p, c)
      [] re.k = "grp" ->
           LET rs == M(re.r, s, p, c)
           IN  [n \in 1..Len(rs) |->
                   [e |-> rs[n].e, c |-> [rs[n].c EXCEPT ![re.n] = <<p, rs[n].e>>]]]
      [] re.k = "rep" /\ re.r.k = "ch" ->
           \* a repeated character class: every admissible count, longest first
           \* when greedy and shortest first when lazy
           LET run == RunLen(s, p, re.r.s)
               top == IF re.hi = Unbounded \/ run < re.hi THEN run ELSE re.hi
               cnt == IF top < re.lo THEN 0 ELSE top - re.lo + 1
           IN  [n \in 1..cnt |->
                   [e |-> IF re.greedy THEN p + top - (n - 1) ELSE p + re.lo + (n - 1),
                    c |-> c]]
      [] re.k = "rep" /\ re.r.k # "ch" ->
           LET once == SelectSeq(M(re.r, s, p, c), LAMBDA st : st.e > p)
               more == IF re.hi = 0 THEN <<>>
                       ELSE MAll([re EXCEPT !.lo = IF re.lo > 0 THEN re.lo - 1 ELSE 0,
                                            !.hi = IF re.hi > 0 THEN re.hi - 1 ELSE re.hi],
                                 s, once)
               stop == IF re.lo <= 0 THEN <<[e |-> p, c |-> c]>> ELSE <<>>
           IN  IF re.greedy THEN more \o stop ELSE stop \o more
      [] re.k = "bol" -> IF p = 1 THEN <<[e |-> p, c |-> c]>> ELSE <<>>
      [] re.k = "eol" -> IF p = Len(s) + 1 THEN <<[e |-> p, c |-> c]>> ELSE <<>>

NoMatch == [ok |-> FALSE, b |-> 0, e |-> 0, c |-> NoGroups]

\* re.match: the expression is tried at the start of s only
ReMatch(re, s) ==
    LET rs == M(re, s, 1, NoGroups)
    IN  IF rs = <<>> THEN NoMatch
        ELSE [ok |-> TRUE, b |-> 1, e |-> rs[1].e, c |-> rs[1].c]

\* the leftmost position in lo..hi from which re matches s; f is First(re)
RECURSIVE SearchIn(_, _, _, _, _)
SearchIn(re, f, s, lo, hi) ==
    IF lo = hi
    THEN IF ~f.empty /\ (lo > Len(s) \/ At(s, lo) \notin f.cs) THEN NoMatch
         ELSE LET rs == M(re, s, lo, NoGroups)
              IN  IF rs = <<>> THEN NoMatch
                  ELSE [ok |-> TRUE, b |-> lo, e |-> rs[1].e, c |-> rs[1].c]
    ELSE LET mid == (lo + hi) \div 2
             left == SearchIn(re, f, s, lo, mid)
         IN  IF left.ok THEN left ELSE SearchIn(re, f, s, mid + 1, hi)

\* re.search(re, s)
ReSearch(re, s) == SearchIn(re, First(re), s, 1, Len(s) + 1)

\* match.group(), and match.group(n)
Group0(m, s) == SubSeq(s, m.b, m.e - 1)
Group(m, s, n) == SubSeq(s, m.c[n][1], m.c[n][2] - 1)

\* the expression with its letters in lower case
RECURSIVE LowerRe(_)
LowerRe(re) ==
    CASE re.k = "ch" -> [re EXCEPT !.s = {LowerCh(ch) : ch \in re.s}]
      [] re.k = "lit" -> [re EXCEPT !.t = Lower(re.t)]
      [] re.k \in {"cat", "alt"} ->
           [re EXCEPT !.a = [n \in 1..Len(re.a) |-> LowerRe(re.a[n])]]
      [] re.k \in {"grp", "rep"} -> [re EXCEPT !.r = LowerRe(re.r)]
      [] OTHER -> re

\* re.search(re, s, re.IGNORECASE): letters compare without case, and the
\* positions of the match are positions of s
ReSearchI(re, s) == ReSearch(LowerRe(re), Lower(s))

(***************************************************************************)
(* The pattern table of _extract_financial_data.                           *)
(***************************************************************************)
D == Ch(Digit)
W == Ch(Word)
S == Ch(Space)
Dot == Ch(AnyChar)
DC == Ch(Digit \cup {","})
Sep == Ch({"-", "/"})

\* patterns["amount"]: \$[\d,]+\.?\d*|\d+\.\d{2}
AmountRe == Alt(<<Cat(<<Lit("$"), Plus(DC), Opt(Lit(".")), Star(D)>>),
                  Cat(<<Plus(D), Lit("."), Rep(D, 2, 2)>>)>>)

\* \w{3}\s+\d{1,2}
MonD == Cat(<<Rep(W, 3, 3), Plus(S), Rep(D, 1, 2)>>)

\* \d{1,2}[-/]\d{1,2}[-/]\d{2,4}
NumDate == Cat(<<Rep(D, 1, 2), Sep, Rep(D, 1, 2), Sep, Rep(D, 2, 4)>>)

\* \d{1,2}/\d{1,2}/\d{2,4}
SlashDate == Cat(<<Rep(D, 1, 2), Lit("/"), Rep(D, 1, 2), Lit("/"), Rep(D, 2, 4)>>)

\* patterns["date"]: \d{1,2}[-/]\d{1,2}[-/]\d{2,4}|\d{4}[-/]\d{1,2}[-/]\d{1,2}|\w{3}\s+\d{1,2}
DateRe == Alt(<<NumDate,
                Cat(<<Rep(D, 4, 4), Sep, Rep(D, 1, 2), Sep, Rep(D, 1, 2)>>),
                MonD>>)

\* patterns["account"]: (?:account|acct|card).*?(?:\d{4}|\d{10,})
AccountRe == Cat(<<Alt(<<Lit("account"), Lit("acct"), Lit("card")>>),
                   Lazy(Dot, 0, Unbounded),
                   Alt(<<Rep(D, 4, 4), Rep(D, 10, Unbounded)>>)>>)

\* patterns["holder"]: (?:holder|name|cardholder):\s*([A-Za-z\s]+)
HolderRe == Cat(<<Alt(<<Lit("holder"), Lit("name"), Lit("cardholder")>>), Lit(":"),
                  Star(S), Grp(1, Plus(Ch(UpperAlpha \cup LowerAlpha \cup Space)))>>)

\* patterns["credit_card"]: (?:credit card|visa|mastercard|amex|discover|capital one)
CreditCardRe == Alt(<<Lit("credit card"), Lit("visa"), Lit("mastercard"), Lit("amex"),
                      Lit("discover"), Lit("capital one")>>)

\* the description class [A-Za-z0-9\s\-\.,&\'*]
DescCh == Ch(UpperAlpha \cup LowerAlpha \cup Digit \cup Space
             \cup {"-", ".", ",", "&", "'", "*"})

\* patterns["transaction_line"]
TransactionLineRe ==
    Cat(<<Grp(1, MonD), Plus(S), Grp(2, MonD), Plus(S),
          Grp(3, Lazy(DescCh, 1, Unbounded)),
          Star(Alt(<<Cat(<<Plus(S), Lit("$"), Plus(DC), Opt(Lit(".")), Star(D)>>),
                     Cat(<<Plus(S), Plus(D), Lit("."), Rep(D, 2, 2)>>)>>)),
          Plus(S), Grp(4, AmountRe)>>)

\* patterns["section_header"]
SectionHeaderRe == Alt(<<Lit("Account Summary"), Lit("Payments, Credits and Adjustments"),
                         Lit("Transactions")>>)

\* ^[\s\$]*[\d,]+\.?\d*[\s\$]*$
AmountOnlyRe == Cat(<<Bol, Star(Ch(Space \cup {"$"})), Plus(DC), Opt(Lit(".")), Star(D),
                      Star(Ch(Space \cup {"$"})), Eol>>)

\* (\d{1,2}[-/]\d{1,2}[-/]\d{2,4}|\w{3}\s+\d{1,2}) as group n
DateTok(n) == Grp(n, Alt(<<NumDate, MonD>>))

\* (?:to|through|-)
ToRe == Alt(<<Lit("to"), Lit("through"), Lit("-")>>)

\* \w{3}\s+\d{1,2},\s+\d{4}
MonDY == Cat(<<Rep(W, 3, 3), Plus(S), Rep(D, 1, 2), Lit(","), Plus(S), Rep(D, 4, 4)>>)

period_patterns == <<
    \* (\w{3}\s+\d{1,2},\s+\d{4})\s*-\s*(\w{3}\s+\d{1,2},\s+\d{4})
    [groups |-> 2,
     re |-> Cat(<<Grp(1, MonDY), Star(S), Lit("-"), Star(S), Grp(2, MonDY)>>)],
    \* Statement\s+Date:\s*(\d{1,2}/\d{1,2}/\d{2,4})
    [groups |-> 1,
     re |-> Cat(<<Lit("Statement"), Plus(S), Lit("Date:"), Star(S), Grp(1, SlashDate)>>)],
    \* (?:As of|Date:)\s*(\d{1,2}/\d{1,2}/\d{2,4})
    [groups |-> 1,
     re |-> Cat(<<Alt(<<Lit("As of"), Lit("Date:")>>), Star(S), Grp(1, SlashDate)>>)],
    \* (\w+)\s+(\d{4})STATEMENT\s+PERIOD\s*(\w{3}\s+\d{1,2})\s*-\s*(\w{3}\s+\d{1,2},\s*\d{4})
    [groups |-> 4,
     re |-> Cat(<<Grp(1, Plus(W)), Plus(S), Grp(2, Rep(D, 4, 4)), Lit("STATEMENT"), Plus(S),
                  Lit("PERIOD"), Star(S), Grp(3, MonD), Star(S), Lit("-"), Star(S),
                  Grp(4, Cat(<<Rep(W, 3, 3), Plus(S), Rep(D, 1, 2), Lit(","), Star(S),
                               Rep(D, 4, 4)>>))>>)],
    \* (?:Statement Period:|Period:|From:|Statement from:).*?(date).*?(?:to|through|-).*?(date)
    [groups |-> 2,
     re |-> Cat(<<Alt(<<Lit("Statement Period:"), Lit("Period:"), Lit("From:"),
                        Lit("Statement from:")>>),
                  Lazy(Dot, 0, Unbounded), DateTok(1), Lazy(Dot, 0, Unbounded), ToRe,
                  Lazy(Dot, 0, Unbounded), DateTok(2)>>)],
    \* Statement\s+Period:\s*(date)\s*(?:to|through|-)\s*(date)
    [groups |-> 2,
     re |-> Cat(<<Lit("Statement"), Plus(S), Lit("Period:"), Star(S), DateTok(1), Star(S),
                  ToRe, Star(S), DateTok(2)>>)],
    \* (?:From|Period):\s*(date)\s*(?:to|through|-)\s*(date)
    [groups |-> 2,
     re |-> Cat(<<Alt(<<Lit("From"), Lit("Period")>>), Lit(":"), Star(S), DateTok(1), Star(S),
                  ToRe, Star(S), DateTok(2)>>)],
    \* (?:For the period|Period covered):\s*(date)\s*(?:to|through|-)\s*(date)
    [groups |-> 2,
     re |-> Cat(<<Alt(<<Lit("For the period"), Lit("Period covered")>>), Lit(":"), Star(S),
                  DateTok(1), Star(S), ToRe, Star(S), DateTok(2)>>)],
    \* (?:Beginning|Start) Balance as of\s*(date)
    [groups |-> 1,
     re |-> Cat(<<Alt(<<Lit("Beginning"), Lit("Start")>>), Lit(" Balance as of"), Star(S),
                  DateTok(1)>>)],
    \* (?:Ending|Closing) Balance as of\s*(date)
    [groups |-> 1,
     re |-> Cat(<<Alt(<<Lit("Ending"), Lit("Closing")>>), Lit(" Balance as of"), Star(S),
                  DateTok(1)>>)],
    \* (?:Statement for|Period):\s*(\w{3,})\s+(\d{4})
    [groups |-> 2,
     re |-> Cat(<<Alt(<<Lit("Statement for"), Lit("Period")>>), Lit(":"), Star(S),
                  Grp(1, Rep(W, 3, Unbounded)), Plus(S), Grp(2, Rep(D, 4, 4))>>)],
    \* (?:Month of|Period):\s*(\w{3,})\s+(\d{4})
    [groups |-> 2,
     re |-> Cat(<<Alt(<<Lit("Month of"), Lit("Period")>>), Lit(":"), Star(S),
                  Grp(1, Rep(W, 3, Unbounded)), Plus(S), Grp(2, Rep(D, 4, 4))>>)] >>

(***************************************************************************)
(* The statement period: the first of period_patterns that matches the     *)
(* whole text, and format_date.                                            *)
(***************************************************************************)
month_map == [Jan |-> "01", Feb |-> "02", Mar |-> "03", Apr |-> "04", May |-> "05",
              Jun |-> "06", Jul |-> "07", Aug |-> "08", Sep |-> "09", Oct |-> "10",
              Nov |-> "11", Dec |-> "12"]

\* the year format_date gives a date that has none
DefaultYear == "2025"

\* "20" + year for a two-digit year
ExpandYear(year) == IF Len(year) = 2 THEN "20" \o year ELSE year

format_date(date_str) ==
    LET d == Strip(Remove(date_str, ","))
        parts == SplitWs(d)
        named == \E m \in DOMAIN month_map : Contains(d, m)
        sep == IF Contains(d, "/") THEN "/" ELSE "-"
        nums == SplitOn(d, sep)
    IN  IF named
        THEN IF Len(parts) \in {2, 3}
             THEN IF SubSeq(parts[1], 1, 3) \in DOMAIN month_map
                  THEN month_map[SubSeq(parts[1], 1, 3)] \o "/" \o Zfill2(parts[2]) \o "/"
                       \o (IF Len(parts) = 2 THEN DefaultYear ELSE parts[3])
                  ELSE d    \* KeyError, caught: the date is returned as it is
             ELSE d
        ELSE IF Contains(d, "/") \/ Contains(d, "-")
        THEN IF Len(nums) >= 2
             THEN Zfill2(nums[1]) \o "/" \o Zfill2(nums[2]) \o "/"
                  \o ExpandYear(IF Len(nums) > 2 THEN nums[3] ELSE DefaultYear)
             ELSE d
        ELSE d

\* the literals every match of re contains
RECURSIVE Needs(_)
Needs(re) ==
    CASE re.k = "lit" -> {re.t} \ {""}
      [] re.k = "cat" -> UNION {Needs(re.a[n]) : n \in 1..Len(re.a)}
      [] re.k = "grp" -> Needs(re.r)
      [] re.k = "rep" -> IF re.lo > 0 THEN Needs(re.r) ELSE {}
      [] OTHER -> {}

\* re.IGNORECASE, prepared once for an expression: the search is then made
\* in the lower-cased text, by Search, and only when the text has the
\* literals a match contains
Compiled(re) == [re |-> LowerRe(re), first |-> First(LowerRe(re)), needs |-> Needs(LowerRe(re))]

Search(c, low) ==
    IF \E t \in c.needs : ~Contains(low, t) THEN NoMatch
    ELSE SearchIn(c.re, c.first, low, 1, Len(low) + 1)

IgnoreCase == [n \in 1..Len(period_patterns) |-> Compiled(period_patterns[n].re)]

AccountReI == Compiled(AccountRe)

HolderReI == Compiled(HolderRe)

CreditCardReI == Compiled(CreditCardRe)

\* the loop over period_patterns without its break: the last pattern, in
\* list order, that matches
RECURSIVE LastPeriod(_, _)
AfterLater(low, n, later) ==
    IF later.ok THEN later
    ELSE [ok |-> Search(IgnoreCase[n], low).ok, n |-> n, m |-> Search(IgnoreCase[n], low)]

LastPeriod(low, n) ==
    IF n > Len(period_patterns) THEN [ok |-> FALSE, n |-> 0, m |-> NoMatch]
    ELSE AfterLater(low, n, LastPeriod(low, n + 1))

\* the loop over period_patterns: the first pattern, in list order, that matches
RECURSIVE FirstPeriod(_, _)
FirstPeriod(low, n) ==
    IF n > Len(period_patterns) THEN [ok |-> FALSE, n |-> 0, m |-> NoMatch]
    ELSE LET m == Search(IgnoreCase[n], low)
         IN  IF m.ok THEN [ok |-> TRUE, n |-> n, m |-> m] ELSE FirstPeriod(low, n + 1)

NotFound == "Not found"

\* the start and end date strings taken from the match, before format_date;
\* raised: the unpacking of end_date.split('/') into three names fails
PeriodDates(t, p) ==
    LET g(n) == Group(p.m, t, n)
        arity == period_patterns[p.n].groups
    IN  IF arity = 4
        THEN [raised |-> FALSE, start_date |-> g(3) \o " " \o g(2), end_date |-> g(4)]
        ELSE IF arity = 2
        THEN [raised |-> FALSE, start_date |-> g(1), end_date |-> g(2)]
        ELSE IF Contains(g(1), "/")
        THEN LET mdy == SplitOn(g(1), "/")
             IN  IF Len(mdy) = 3
                 THEN [raised |-> FALSE, start_date |-> mdy[1] \o "/01/" \o mdy[3],
                       end_date |-> g(1)]
                 ELSE [raised |-> TRUE, start_date |-> "", end_date |-> g(1)]
        ELSE [raised |-> FALSE, start_date |-> g(1), end_date |-> g(1)]

\* PeriodOf with an error when no pattern matched
PeriodRequired(p, ds) ==
    IF ~p.ok \/ ds.raised
    THEN [raised |-> TRUE, matched |-> p.n, period |-> [start_date |-> "", end_date |-> ""]]
    ELSE [raised |-> FALSE, matched |-> p.n,
          period |-> [start_date |-> format_date(ds.start_date),
                      end_date |-> format_date(ds.end_date)]]

\* statement_period for the text t, or raised
PeriodOf(p, ds) ==
    IF ~p.ok
    THEN [raised |-> FALSE, matched |-> 0,
          period |-> [start_date |-> NotFound, end_date |-> NotFound]]
    ELSE IF ds.raised
    THEN [raised |-> TRUE, matched |-> p.n, period |-> [start_date |-> "", end_date |-> ""]]
    ELSE [raised |-> FALSE, matched |-> p.n,
          period |-> [start_date |-> format_date(ds.start_date),
                      end_date |-> format_date(ds.end_date)]]

DatesOf(t, p) == PeriodOf(p, IF p.ok THEN PeriodDates(t, p) ELSE <<>>)

ResolvePeriod(t) == DatesOf(t, FirstPeriod(Lower(t), 1))

\* account_info for the text t
AccountInfoOf(t, a, h) ==
    [account_number |-> IF a.ok THEN Group0(a, t) ELSE "",
     holder_name |-> IF h.ok THEN Strip(Group(h, t, 1)) ELSE ""]

AccountInfo(t) == AccountInfoOf(t, Search(AccountReI, Lower(t)), Search(HolderReI, Lower(t)))

\* is_credit_card for the text t
IsCreditCard(t) == Search(CreditCardReI, Lower(t)).ok

(***************************************************************************)
(* float(): the value in cents of a string of digits with at most one      *)
(* point, and whether float raises ValueError (the string has no digit).   *)
(* Digits after the second decimal are not counted.                        *)
(***************************************************************************)
DigitVal == [c \in Digit |->
    CASE c = "0" -> 0 [] c = "1" -> 1 [] c = "2" -> 2 [] c = "3" -> 3 [] c = "4" -> 4
      [] c = "5" -> 5 [] c = "6" -> 6 [] c = "7" -> 7 [] c = "8" -> 8 [] c = "9" -> 9]

RECURSIVE ToInt(_)
ToInt(s) ==
    IF Len(s) = 0 THEN 0
    ELSE ToInt(SubSeq(s, 1, Len(s) - 1)) * 10 + DigitVal[At(s, Len(s))]

Float(s) ==
    LET parts == SplitOn(s, ".")
        whole == parts[1]
        frac == IF Len(parts) > 1 THEN parts[2] ELSE ""
        frac2 == SubSeq(frac \o "00", 1, 2)
    IN  IF Len(parts) > 2 \/ Outside(whole \o frac, Digit) # {} \/ Len(whole \o frac) = 0
        THEN [ok |-> FALSE, v |-> 0]
        ELSE [ok |-> TRUE, v |-> ToInt(whole) * 100 + ToInt(frac2)]

\* group().replace('$', '').replace(',', '')
AmountStr(tok) == Remove(Remove(tok, "$"), ",")

\* the amount of a matched token: a leading '-' is dropped, then float()
AmountOf(tok) ==
    LET a == AmountStr(tok)
    IN  Float(IF StartsWith(a, "-") THEN SubSeq(a, 2, Len(a)) ELSE a)


(***************************************************************************)
(* One line of the loop over text.split('\n').                             *)
(***************************************************************************)

\* the section-header test: whether the line is consumed as a header, and the
\* section it sets ("unchanged": no branch of the mapping assigns one)
SectionOf(section_name) ==
    IF Contains(Lower(section_name), "account summary") THEN "account_summary"
    ELSE IF Contains(section_name, "payments") THEN "payments_credits"
    ELSE IF Contains(section_name, "transactions") THEN "transactions"
    ELSE "unchanged"

HeaderOf(line, m) ==
    [header |-> m.ok \/ Contains(line, "Account Summary") \/ Contains(line, "ACCOUNT NAME"),
     section |-> SectionOf(IF m.ok THEN Lower(Group0(m, line)) ELSE "account_summary")]

SectionHeader(line) == HeaderOf(line, ReSearchI(SectionHeaderRe, line))

\* empty lines and column headers
IsBlankOrColumnHeader(line) ==
    Strip(line) = "" \/ ContainsAny(Lower(line), <<"date", "description", "amount", "balance">>)

\* IsBoilerplate with the fragments of the summary table only
IsSummaryRow(line) ==
    Contains(line, "%")
    \/ ContainsAny(Lower(line), <<"purchases", "cash advances", "fees", "interest",
                                  "ses", "ces", "p $0.00", "other $">>)

\* summary lines: a percentage or one of the fragments
IsBoilerplate(line) ==
    Contains(line, "%")
    \/ ContainsAny(Lower(line), <<"purchases", "cash advances", "fees", "interest",
                                  "ses", "ces", "p $0.00", "other $",
                                  "credit limit", "exchange rate", "minimum payment",
                                  "available credit", "cash advance limit">>)

\* lines that hold only amounts
IsAmountOnly(line) == ReMatch(AmountOnlyRe, Strip(line)).ok

\* the first filter alone
SkipBlank(line) == IsBlankOrColumnHeader(line)

\* the three filters a line passes before any field is extracted
SkipLine(line) == IsBlankOrColumnHeader(line) \/ IsBoilerplate(line) \/ IsAmountOnly(line)

\* \$([\d,]+\.\d{2}) as group n
Money(n) == Cat(<<Lit("$"), Grp(n, Cat(<<Plus(DC), Lit("."), Rep(D, 2, 2)>>))>>)

\* 360\s+(?:Checking|Performance\s+Savings)\.{3}(\d{4})\s+\$([\d,]+\.\d{2})\s+\$([\d,]+\.\d{2})
BankAccountRe ==
    Cat(<<Lit("360"), Plus(S),
          Alt(<<Lit("Checking"), Cat(<<Lit("Performance"), Plus(S), Lit("Savings")>>)>>),
          Rep(Dot, 3, 3), Grp(1, Rep(D, 4, 4)), Plus(S), Money(2), Plus(S), Money(3)>>)

\* All\s+Accounts\s+\$([\d,]+\.\d{2})\s+\$([\d,]+\.\d{2})
AllAccountsRe ==
    Cat(<<Lit("All"), Plus(S), Lit("Accounts"), Plus(S), Money(1), Plus(S), Money(2)>>)

\* the entry appended to balance_info["accounts"]
AccountEntry(number, opening, closing) ==
    [account_number |-> number, opening |-> opening, closing |-> closing,
     change |-> closing - opening]

\* the keyword chain of the credit-card summary, in the order of its branches
SummaryKeywords ==
    << <<"previous balance", "previous_balance">>, <<"payments", "payments">>,
       <<"other credits", "other_credits">>, <<"purchases", "purchases">>,
       <<"cash advances", "cash_advances">>, <<"fees", "fees">>,
       <<"interest", "interest">>, <<"new balance", "new_balance">> >>

\* float(group(n).replace(',', ''))
GroupValue(m, line, n) == Float(Remove(Group(m, line, n), ",")).v

\* the slot a summary line names, and the amount it is set to (ok: float()
\* did not raise); hits: the branches of the chain whose keyword is in the line
SlotValue(line, am, hits) ==
    LET slot == SummaryKeywords[MinOf(hits)][2]
        val == IF slot = "payments" THEN AmountOf(Group0(am, line))
               ELSE Float(AmountStr(Group0(am, line)))
    IN  [ok |-> val.ok, slot |-> slot, v |-> val.v]

\* what a line does while the section is account_summary: append an account
\* entry, overwrite one balance slot, raise (float() of the amount), or nothing
SummaryOf(line, acc, all, am, hits) ==
    LET none == [kind |-> "none", slot |-> "", v |-> 0, entry |-> <<>>]
        set(val) == IF val.ok THEN [none EXCEPT !.kind = "slot", !.slot = val.slot, !.v = val.v]
                    ELSE [none EXCEPT !.kind = "raise"]
    IN  IF acc.ok
        THEN [none EXCEPT !.kind = "account",
                          !.entry = AccountEntry(Group(acc, line, 1), GroupValue(acc, line, 2),
                                                 GroupValue(acc, line, 3))]
        ELSE IF all.ok
        THEN [none EXCEPT !.kind = "account",
                          !.entry = AccountEntry("total", GroupValue(all, line, 1),
                                                 GroupValue(all, line, 2))]
        ELSE IF hits = {} \/ ~am.ok THEN none
        ELSE set(SlotValue(line, am, hits))

SummaryLine(line) ==
    SummaryOf(line, ReSearch(BankAccountRe, line), ReSearch(AllAccountsRe, line),
              ReSearch(AmountRe, line),
              {n \in 1..Len(SummaryKeywords) : Contains(Lower(line), SummaryKeywords[n][1])})

\* the category of a credit-card purchase, by its description
Categorize(description) ==
    LET d == Lower(description)
    IN  IF Contains(d, "amazon") THEN "shopping"
        ELSE IF Contains(d, "restaurant") \/ Contains(d, "cafe") THEN "dining"
        ELSE IF Contains(d, "apple.com") THEN "subscription"
        ELSE IF Contains(d, "godaddy") THEN "business"
        ELSE IF Contains(d, "garage") THEN "parking"
        ELSE IF Contains(d, "wegmans") THEN "groceries"
        ELSE "other"

\* IsRecurring with the word subscription only
IsSubscription(line) == Contains(Lower(line), "subscription")

IsRecurring(line) ==
    ContainsAny(Lower(line), <<"monthly", "subscription", "recurring", "automatic",
                               "membership">>)

\* the additional validation of a matched transaction line, on its description
IsMetadata(description) ==
    ContainsAny(Lower(description), <<"credit limit", "exchange rate", "minimum payment",
                                      "available credit", "cash advance limit",
                                      "payment due", "credit available">>)

\* the transaction a line is a candidate for, before its section types it:
\* skip (continue), raise (float() of the amount), or the transaction with
\* the date, description and amount found; matched: transaction_line matched
NewTransaction(line) ==
    [type |-> "expense", amount |-> 0, date |-> "", category |-> "other",
     description |-> Strip(line), is_recurring |-> FALSE]

\* transaction_line matched, as m
MatchedCandidate(line, m, desc, amt) ==
    LET out == [kind |-> "tx", matched |-> TRUE, meta |-> FALSE, tx |-> NewTransaction(line)]
    IN  IF ContainsAny(Lower(line), <<"ses", "ces", "p $0.00", "other $">>)
        THEN [out EXCEPT !.kind = "skip"]
        ELSE IF desc = "" \/ ReMatch(AmountOnlyRe, desc).ok
        THEN [out EXCEPT !.kind = "skip"]
        ELSE IF ~amt.ok THEN [out EXCEPT !.kind = "raise"]
        ELSE [out EXCEPT !.meta = IsMetadata(Group(m, line, 3)),
                         !.tx.date = Group(m, line, 1),
                         !.tx.description = desc,
                         !.tx.amount = amt.v]

\* transaction_line did not match: the amount and the date are searched for
\* in the line, each on its own
FallbackCandidate(line, am, dm) ==
    LET out == [kind |-> "tx", matched |-> FALSE, meta |-> FALSE, tx |-> NewTransaction(line)]
        dated == [out EXCEPT !.tx.date = IF dm.ok THEN Group0(dm, line) ELSE ""]
        valued(amt) == IF amt.ok THEN [dated EXCEPT !.tx.amount = amt.v]
                       ELSE [out EXCEPT !.kind = "raise"]
    IN  IF am.ok THEN valued(AmountOf(Group0(am, line))) ELSE dated

CandidateOf(line, m) ==
    IF m.ok
    THEN MatchedCandidate(line, m, Strip(Group(m, line, 3)), AmountOf(Group(m, line, 4)))
    ELSE FallbackCandidate(line, ReSearch(AmountRe, line), ReSearch(DateRe, line))

Candidate(line) == CandidateOf(line, ReSearch(TransactionLineRe, line))

\* everything about a line that does not depend on the state of the parse
ScanOf(line, c) ==
    [header |-> SectionHeader(line), skip |-> SkipLine(line), summary |-> SummaryLine(line),
     candidate |-> c, recurring |-> IsRecurring(line),
     category |-> Categorize(c.tx.description)]

ScanLine(line) == ScanOf(line, Candidate(line))


(***************************************************************************)
(* The statements the parser is run on: every text of at most MaxHead of   *)
(* the heading lines, every text of at most MaxBody of the body lines,     *)
(* with and without a card name in front, and a few whole statements.      *)
(***************************************************************************)
MaxHead == 2
MaxBody == 2

CardLine == "VISA SIGNATURE"

HeadLines == {
    "Feb 01, 2025 - Feb 28, 2025",
    "Statement Date: 2/5/23",
    "As of 3/1/2025",
    "February 2025STATEMENT PERIOD Feb 1 - Feb 28, 2025",
    "Statement Period: 1/1/2025 to 1/31/2025",
    "Statement Period: feb 1 - feb 28",
    "Period covered: 1/1/25 through 1/31/25",
    "Beginning Balance as of Feb 1",
    "Ending Balance as of 2-28-25",
    "Closing Balance as of 2/28-25",
    "Statement for: February 2025",
    "Month of: March 2025",
    "Name: John Smith" }

BodyLines == {
    "Account Summary",
    "Payments, Credits and Adjustments",
    "Transactions",
    "Mar 12  Mar 13  AMAZON MKTP US  $14.50",
    "Mar 12  Mar 13  STARBUCKS STORE #123  $4.50",
    "Mar 14  Mar 15  VOID ITEM  $0.00",
    "Mar 16  Mar 17  NETFLIX monthly  $9.99",
    "Mar 18  Mar 19  payment due  $25.00",
    "Mar 20  credit limit $5,000",
    "Mar 20  Mar 21  credit limit $5,000  $25.00",
    "Mar 22  Transactions  $12.00",
    "Mar 23  Balance Transfer  $40.00",
    "$1,234.56",
    "Payments -$50.00",
    "Other Credits $5.00",
    "Purchases $200.00",
    "360 Checking...9681 $1,197.40 $3,379.10",
    "ITEM $,",
    "" }

\* a credit-card account summary
SummarySample ==
    <<CardLine, "Account Summary", "Previous Balance $100.00", "Payments -$50.00",
      "Purchases $200.00", "New Balance $250.00">>

Samples == {
    SummarySample,
    \* a credit-card statement with its three sections
    <<"Capital One Account 1234", "Mar 01  Mar 02  ANNUAL MEMBERSHIP  $95.00",
      "Payments, Credits and Adjustments",
      "Mar 05  Mar 06  THANK YOU  $50.00", "Transactions",
      "Mar 12  Mar 13  STARBUCKS STORE #123  $4.50",
      "Mar 12  Mar 13  AMAZON MKTP US  $14.50", "Mar 13  Mar 14  APPLE.COM CAFE  $7.00",
      "Account Summary", "Payments -$50.00">>,
    \* a bank statement
    <<"February 2025STATEMENT PERIOD Feb 1 - Feb 28, 2025", "ACCOUNT NAME",
      "Account Summary", "360 Checking...9681 $1,197.40 $3,379.10",
      "All Accounts $1,197.40 $3,379.10", "Transactions", "Feb 03 Deposit 1,000.00">> }

SeqsUpTo(lines, n) == UNION {[1..k -> lines] : k \in 0..n}

\* text.split('\n') has at least one line: the empty text is the line ""
Texts ==
    (SeqsUpTo(HeadLines, MaxHead)
     \cup {pre \o body : pre \in {<<>>, <<CardLine>>}, body \in SeqsUpTo(BodyLines, MaxBody)}
     \cup Samples) \ {<<>>}

\* the statements a tool is given one after the other, when it is used again,
\* and how many times it is
MaxCalls == 3

RerunTexts ==
    Samples
    \cup {<<"Mar 12  Mar 13  AMAZON MKTP US  $14.50">>,
          <<"Statement Date: 2/5/23">>,
          <<"ITEM $,">>}

LineSet == UNION {{t[n] : n \in 1..Len(t)} : t \in Texts}

Scanned == [line \in LineSet |-> ScanLine(line)]

(***************************************************************************)
(* The state of one parse.                                                 *)
(***************************************************************************)
Sections == {"account_summary", "payments_credits", "transactions"}

\* financial_data as _extract_financial_data creates it
InitialData ==
    [transactions |-> <<>>,
     balances |-> <<>>,
     categories |-> {},
     statement_period |-> [start_date |-> "", end_date |-> ""],
     account_info |-> [account_number |-> "", holder_name |-> ""],
     balance_info |-> [accounts |-> <<>>, previous_balance |-> 0, payments |-> 0,
                       other_credits |-> 0, purchases |-> 0, cash_advances |-> 0,
                       fees |-> 0, interest |-> 0, new_balance |-> 0],
     sections |-> [account_summary |-> <<>>, payments_credits |-> <<>>,
                   transactions |-> <<>>]]

\* TypeBySection without the sections: every line of a card is a purchase
TypeAsExpense(tx, section, cc, category) ==
    IF cc THEN [tx EXCEPT !.type = "expense", !.category = category] ELSE tx

\* TypeBySection with the payments of a card as income
TypeWithIncome(tx, section, cc, category) ==
    IF cc /\ section = "payments_credits"
    THEN [tx EXCEPT !.type = "income", !.category = "payment"]
    ELSE IF cc /\ section = "transactions"
    THEN [tx EXCEPT !.type = "expense", !.category = category]
    ELSE tx

\* the type and category a credit-card statement gives a candidate, by section
TypeBySection(tx, section, cc, category) ==
    IF cc /\ section = "payments_credits"
    THEN [tx EXCEPT !.type = "payment", !.category = "payment"]
    ELSE IF cc /\ section = "transactions"
    THEN [tx EXCEPT !.type = "expense", !.category = category]
    ELSE tx

\* the amount a credit-card statement adds to balance_info, by section
Accumulate(bi, section, cc, amount) ==
    IF cc /\ section = "payments_credits" THEN [bi EXCEPT !.payments = @ + amount]
    ELSE IF cc /\ section = "transactions" THEN [bi EXCEPT !.purchases = @ + amount]
    ELSE bi

\* Retain without the test of the amount
RetainAny(fd, section, tx) ==
    [fd EXCEPT !.transactions = Append(@, tx),
               !.sections = IF section \in DOMAIN fd.sections
                            THEN [@ EXCEPT ![section] = Append(@, tx)]
                            ELSE @]

\* Retain with the list of the transactions section for a line that is in
\* no section
RetainFiled(fd, section, tx) ==
    IF tx.amount > 0
    THEN [fd EXCEPT !.transactions = Append(@, tx),
                    !.sections = IF section \in DOMAIN fd.sections
                                 THEN [@ EXCEPT ![section] = Append(@, tx)]
                                 ELSE [@ EXCEPT !.transactions = Append(@, tx)]]
    ELSE fd

\* the transaction is kept when it has an amount, and goes to its section's list
Retain(fd, section, tx) ==
    IF tx.amount > 0
    THEN [fd EXCEPT !.transactions = Append(@, tx),
                    !.sections = IF section \in DOMAIN fd.sections
                                 THEN [@ EXCEPT ![section] = Append(@, tx)]
                                 ELSE @]
    ELSE fd

\* no line is handled as a summary line
InNoSummary(section) == FALSE

\* the line is handled by the account summary branch
InSummary(section) == section = "account_summary"

\* the body of the loop for one line whose scan is f: the section and
\* financial_data after it, and what the line did
StepOf(f, section, cc, fd) ==
    LET out(sec, data, what) == [section |-> sec, fd |-> data, outcome |-> what]
        typed(c) == [fd EXCEPT !.balance_info = Accumulate(@, section, cc, c.tx.amount)]
        tx(c) == [TypeBySection(c.tx, section, cc, f.category)
                     EXCEPT !.is_recurring = f.recurring]
        summarized(u) ==
            CASE u.kind = "account" ->
                   out(section, [fd EXCEPT !.balance_info.accounts = Append(@, u.entry)],
                       "summary")
              [] u.kind = "slot" ->
                   out(section, [fd EXCEPT !.balance_info[u.slot] = u.v], "summary")
              [] u.kind = "raise" -> out(section, fd, "raised")
              [] OTHER -> out(section, fd, "ignored")
        extracted(c) ==
            IF c.kind = "skip" THEN out(section, fd, "dropped")
            ELSE IF c.kind = "raise" THEN out(section, fd, "raised")
            ELSE IF c.matched /\ c.meta THEN out(section, typed(c), "dropped")
            ELSE out(section, Retain(typed(c), section, tx(c)),
                     IF c.tx.amount > 0 THEN "added" ELSE "dropped")
        headed(h) ==
            out(IF h.section = "unchanged" THEN section ELSE h.section, fd, "header")
    IN  IF f.header.header THEN headed(f.header)
        ELSE IF f.skip THEN out(section, fd, "skipped")
        ELSE IF InSummary(section) THEN summarized(f.summary)
        ELSE extracted(f.candidate)

LineStep(line, section, cc, fd) == StepOf(Scanned[line], section, cc, fd)

\* net_change with the payments taken off
NetChangeOwed(bi) ==
    bi.previous_balance - bi.payments - bi.other_credits + bi.purchases
    + bi.cash_advances + bi.fees + bi.interest - bi.new_balance

\* net_change, for a credit-card statement
NetChange(bi) ==
    bi.previous_balance + bi.payments + bi.other_credits + bi.purchases
    + bi.cash_advances + bi.fees + bi.interest - bi.new_balance

WithNetChange(bi, cc) == IF cc THEN ("net_change" :> NetChange(bi)) @@ bi ELSE bi

(***************************************************************************)
(* The summary PDFReaderTool._run computes from the transactions.          *)
(***************************************************************************)
RECURSIVE SumAmounts(_, _)
SumAmounts(txs, type) ==
    IF txs = <<>> THEN 0
    ELSE (IF Head(txs).type = type THEN Head(txs).amount ELSE 0) + SumAmounts(Tail(txs), type)

\* d[k] += v, with d[k] = 0 first when k is not in d
AddTo(d, k, v) == IF k \in DOMAIN d THEN [d EXCEPT ![k] = @ + v] ELSE (k :> v) @@ d

\* the per-category totals of the transactions whose type is (income = TRUE)
\* or is not (income = FALSE) "income"
RECURSIVE ByCategory(_, _)
ByCategory(txs, income) ==
    IF txs = <<>> THEN <<>>
    ELSE LET t == txs[Len(txs)]
             rest == ByCategory(SubSeq(txs, 1, Len(txs) - 1), income)
         IN  IF (t.type = "income") = income THEN AddTo(rest, t.category, t.amount) ELSE rest

\* sum(d.values())
RECURSIVE SumValues(_)
SumValues(d) ==
    IF DOMAIN d = {} THEN 0
    ELSE LET k == CHOOSE k \in DOMAIN d : TRUE
         IN  d[k] + SumValues([x \in DOMAIN d \ {k} |-> d[x]])

\* the "category: amount" entries of the recurring transactions
RecurringItems(txs) ==
    LET rec == SelectSeq(txs, LAMBDA t : t.is_recurring)
    IN  [n \in 1..Len(rec) |-> <<rec[n].category, rec[n].amount>>]

Summary(txs) ==
    [total_income |-> SumAmounts(txs, "income"),
     total_expenses |-> SumAmounts(txs, "expense"),
     net_cash_flow |-> SumAmounts(txs, "income") - SumAmounts(txs, "expense"),
     income_by_category |-> ByCategory(txs, TRUE),
     expense_by_category |-> ByCategory(txs, FALSE),
     recurring_items |-> RecurringItems(txs)]

(***************************************************************************)
(* The parse, step by step.                                                *)
(***************************************************************************)
\* no call of format_date on its own, and no batch
FormatIdle == date_given = "" /\ formatted = <<>> /\ today = DefaultYear

BatchIdle ==
    /\ pdf_files = <<>>
    /\ docs = <<>>
    /\ bpc = "idle"
    /\ pos = 1
    /\ analyses = <<>>
    /\ results = <<>>
    /\ report = <<>>

Init ==
    /\ FormatIdle
    /\ BatchIdle
    /\ text \in Texts
    /\ pc = "start"
    /\ i = 1
    /\ is_credit_card = FALSE
    /\ current_section = "none"
    /\ financial_data = InitialData
    /\ period_match = 0
    /\ summary = <<>>
    /\ trace = <<>>
    /\ history = <<>>
    /\ calls = 1

\* what history keeps of a parse of text t
Outcome(t, raised, fd) == [text |-> t, raised |-> raised, data |-> IF raised THEN <<>> ELSE fd]

\* Begin with the financial_data of the parse before
BeginKeep ==
    /\ pc = "start"
    /\ is_credit_card' = IsCreditCard(Join(text))
    /\ pc' = "period"
    /\ UNCHANGED <<text, i, current_section, financial_data, period_match, summary, trace,
                   history, calls>>
    /\ UNCHANGED <<fvars, bvars>>

\* _extract_financial_data is entered: a new financial_data, and the
\* statement type
Begin ==
    /\ pc = "start"
    /\ financial_data' = InitialData
    /\ is_credit_card' = IsCreditCard(Join(text))
    /\ pc' = "period"
    /\ UNCHANGED <<text, i, current_section, period_match, summary, trace, history, calls>>
    /\ UNCHANGED <<fvars, bvars>>

\* the statement period
Period ==
    /\ pc = "period"
    /\ \E r \in {ResolvePeriod(Join(text))} :
           /\ period_match' = r.matched
           /\ IF r.raised
              THEN /\ pc' = "raised"
                   /\ history' = Append(history, Outcome(text, TRUE, financial_data))
                   /\ UNCHANGED financial_data
              ELSE /\ pc' = "account"
                   /\ financial_data' = [financial_data EXCEPT !.statement_period = r.period]
                   /\ UNCHANGED history
    /\ UNCHANGED <<text, i, is_credit_card, current_section, summary, trace, calls>>
    /\ UNCHANGED <<fvars, bvars>>

\* the account number and the holder name; the loop over the lines starts
Account ==
    /\ pc = "account"
    /\ financial_data' = [financial_data EXCEPT !.account_info = AccountInfo(Join(text))]
    /\ current_section' = "none"
    /\ i' = 1
    /\ trace' = <<>>
    /\ pc' = "lines"
    /\ UNCHANGED <<text, is_credit_card, period_match, summary, history, calls>>
    /\ UNCHANGED <<fvars, bvars>>

\* one iteration of the loop
Line ==
    /\ pc = "lines"
    /\ i <= Len(text)
    /\ \E r \in {LineStep(text[i], current_section, is_credit_card, financial_data)} :
           /\ trace' = Append(trace, [line |-> text[i], section |-> current_section,
                                      outcome |-> r.outcome])
           /\ current_section' = r.section
           /\ financial_data' = r.fd
           /\ IF r.outcome = "raised"
              THEN /\ pc' = "raised"
                   /\ history' = Append(history, Outcome(text, TRUE, financial_data))
              ELSE /\ pc' = "lines"
                   /\ UNCHANGED history
    /\ i' = i + 1
    /\ UNCHANGED <<text, is_credit_card, period_match, summary, calls>>
    /\ UNCHANGED <<fvars, bvars>>

\* after the last line: net_change, and the result is returned
Return ==
    /\ pc = "lines"
    /\ i > Len(text)
    /\ financial_data' = [financial_data EXCEPT
                              !.balance_info = WithNetChange(@, is_credit_card)]
    /\ history' = Append(history, Outcome(text, FALSE, financial_data'))
    /\ pc' = "returned"
    /\ UNCHANGED <<text, i, is_credit_card, current_section, period_match, summary, trace,
                   calls>>
    /\ UNCHANGED <<fvars, bvars>>

\* _run builds the summary of the returned transactions
Summarize ==
    /\ pc = "returned"
    /\ summary' = Summary(financial_data.transactions)
    /\ pc' = "done"
    /\ UNCHANGED <<text, i, is_credit_card, current_section, financial_data, period_match,
                   trace, history, calls>>
    /\ UNCHANGED <<fvars, bvars>>

Next == Begin \/ Period \/ Account \/ Line \/ Return \/ Summarize

Spec == Init /\ [][Next]_vars

\* the same tool is given another statement: nothing of the tool changes
\* between two calls
Invoke ==
    /\ pc \in {"done", "raised"}
    /\ calls < MaxCalls
    /\ text' \in RerunTexts
    /\ calls' = calls + 1
    /\ pc' = "start"
    /\ UNCHANGED <<i, is_credit_card, current_section, financial_data, period_match, summary,
                   trace, history>>
    /\ UNCHANGED <<fvars, bvars>>

InitRerun == Init /\ text \in RerunTexts

NextRerun == Next \/ Invoke

SpecRerun == InitRerun /\ [][NextRerun]_vars

(***************************************************************************)
(* format_date on its own: one call on one date string.                    *)
(***************************************************************************)
\* the parser is not running
ParserIdle ==
    /\ text = <<"">>
    /\ pc = "idle"
    /\ i = 1
    /\ is_credit_card = FALSE
    /\ current_section = "none"
    /\ financial_data = InitialData
    /\ period_match = 0
    /\ summary = <<>>
    /\ trace = <<>>
    /\ history = <<>>
    /\ calls = 0

\* the years a statement may be processed in: the year the code was written
\* for, and the next
Years == {DefaultYear, "2026"}

\* month-name dates, numeric dates, and strings that are neither
DateInputs ==
    {m \o " " \o d \o y : m \in {"Feb", "feb", "Sept", "February"}, d \in {"1", "28"},
                          y \in {"", " 2025", ", 2025", " 23"}}
    \cup {m \o sep \o d \o y : m \in {"2", "12"}, d \in {"5", "28"}, sep \in {"/", "-"},
                               y \in {"", "/23", "-23", "/2023"}}
    \cup {"", " ", "/", "2025", "Feb", "February", "1/2/3/4", "Feb 1 2 3", "xFeb 5",
          " 2/5/23 ", "Feb  28"}

InitFormat ==
    /\ ParserIdle
    /\ BatchIdle
    /\ date_given \in DateInputs
    /\ formatted = <<>>
    /\ today \in Years

Format ==
    /\ formatted = <<>>
    /\ formatted' = <<format_date(date_given)>>
    /\ UNCHANGED <<pvars, bvars, date_given, today>>

NextFormat == Format

SpecFormat == InitFormat /\ [][NextFormat]_vars

(***************************************************************************)
(* process_files: every file found is given to analyze_pdf, which reads it *)
(* with _run and asks the LLM about its text; the report generator then    *)
(* groups the analyses.                                                    *)
(***************************************************************************)
\* the loop over the lines from line k on: the data after the last line, or
\* the exception of the first line that raises
RECURSIVE LinesFrom(_, _, _, _, _)
AfterLine(t, k, cc, fd, r) ==
    IF r.outcome = "raised" THEN [raised |-> TRUE, fd |-> fd]
    ELSE LinesFrom(t, k + 1, r.section, cc, r.fd)

LinesFrom(t, k, section, cc, fd) ==
    IF k > Len(t) THEN [raised |-> FALSE, fd |-> fd]
    ELSE AfterLine(t, k, cc, fd, LineStep(t[k], section, cc, fd))

\* the parse after the statement period p
AfterPeriod(t, cc, p) ==
    IF p.raised THEN [raised |-> TRUE, fd |-> InitialData]
    ELSE LinesFrom(t, 1, "none", cc,
                   [InitialData EXCEPT !.statement_period = p.period,
                                       !.account_info = AccountInfo(Join(t))])

\* _extract_financial_data on the lines t, in one step
extract_financial_data(t) ==
    LET cc == IsCreditCard(Join(t))
        r == AfterPeriod(t, cc, ResolvePeriod(Join(t)))
    IN  IF r.raised THEN r
        ELSE [raised |-> FALSE,
              fd |-> [r.fd EXCEPT !.balance_info = WithNetChange(@, cc)]]

\* the analysis _run returns for the parsed data fd and its summary sm
Analysis(fd, sm) ==
    [statement_period |-> fd.statement_period,
     account_info |-> fd.account_info,
     balance_info |-> fd.balance_info,
     transactions |-> fd.transactions,
     balances |-> fd.balances,
     categories |-> fd.categories,
     summary |-> sm]

\* the lines of the text of pages: every page's text, then a line feed
RECURSIVE PageLines(_)
PageLines(pages) ==
    IF pages = <<>> THEN <<"">> ELSE pages[1] \o PageLines(Tail(pages))

\* the most files a run finds
MaxFiles == 2

\* the files the two directories may hold, in ascending order of their paths
Paths == <<"in/Bank/2025-02.pdf", "in/CC/2025-02.pdf", "in/CC/2025-03.pdf">>

Rank(path) == CHOOSE n \in 1..Len(Paths) : Paths[n] = path

Range(f) == {f[x] : x \in DOMAIN f}

\* the orders process_files can find the files in: those of the CC
\* directory in any order, then those of the Bank directory
Listings ==
    {fs \in UNION {[1..n -> Range(Paths)] : n \in 0..MinOf({MaxFiles, Len(Paths)})} :
        /\ \A a, b \in 1..Len(fs) : a # b => fs[a] # fs[b]
        /\ \A a, b \in 1..Len(fs) :
               (Contains(fs[a], "/Bank/") /\ Contains(fs[b], "/CC/")) => b < a}

\* pdf_files.sort(reverse=True)
SortReverse(fs) ==
    CHOOSE q \in [1..Len(fs) -> Range(fs)] :
        /\ Range(q) = Range(fs)
        /\ \A a, b \in 1..Len(fs) : a < b => Rank(q[a]) > Rank(q[b])

\* the pages a file may hold, each page the lines of its text: no page, a
\* page without text, a card statement, a bank statement, a line with a
\* malformed amount, a card statement on two pages
DocPages ==
    {<<>>,
     << <<"">> >>,
     <<SummarySample>>,
     << <<"February 2025STATEMENT PERIOD Feb 1 - Feb 28, 2025",
          "360 Checking...9681 $1,197.40 $3,379.10", "Transactions",
          "Feb 03 Deposit 1,000.00">> >>,
     << <<"ITEM $,">> >>,
     << <<CardLine, "Transactions">>, <<"Mar 12  Mar 13  AMAZON MKTP US  $14.50">> >>}

\* the parse of every such text
Parsed == [p \in DocPages |-> extract_financial_data(PageLines(p))]

\* _run on a document: the file cannot be opened, or its pages are read and
\* their text is parsed; events: what was done, in its order
run(file_path, doc) ==
    IF ~doc.readable THEN [raised |-> TRUE, events |-> <<"open">>]
    ELSE IF Parsed[doc.pages].raised THEN [raised |-> TRUE, events |-> <<"open", "core">>]
    ELSE [raised |-> FALSE,
          events |-> <<"open", "core">>,
          raw_text |-> Join(PageLines(doc.pages)),
          metadata |-> [file_path |-> file_path, num_pages |-> Len(doc.pages)],
          output |-> [analysis |-> Analysis(Parsed[doc.pages].fd,
                                            Summary(Parsed[doc.pages].fd.transactions))]]

\* what the LLM does when it is asked: it answers with JSON, it answers
\* with text that is not JSON, or the call fails
LLM == {"json", "text", "raise"}

\* analyze_pdf on a document, given what _run returned for it; asked tells
\* whether the LLM was called, events what was done and in which order: the
\* file is opened, the core parses the text, the text is checked for being
\* empty, the LLM is called
AnalyzeRun(doc, r) ==
    IF r.raised THEN [status |-> "error", asked |-> FALSE, events |-> r.events]
    ELSE IF r.raw_text = ""
    THEN [status |-> "error", asked |-> FALSE, events |-> r.events \o <<"check">>]
    ELSE IF doc.llm = "raise"
    THEN [status |-> "error", asked |-> TRUE, events |-> r.events \o <<"check", "llm">>]
    ELSE [status |-> "success", asked |-> TRUE,
          events |-> r.events \o <<"check", "llm">>,
          data |-> [metadata |-> r.metadata, output |-> r.output,
                    insights |-> IF doc.llm = "json" THEN "analysis"
                                 ELSE "Failed to parse analysis as JSON"]]

analyze_pdf(file_path, doc) == AnalyzeRun(doc, run(file_path, doc))

\* the report generator's two groups of the analyses
IsCardAnalysis(a) == "previous_balance" \in DOMAIN a.output.analysis.balance_info

ReportGroups(as) ==
    [credit_card |-> SelectSeq(as, IsCardAnalysis),
     bank |-> SelectSeq(as, LAMBDA a : ~IsCardAnalysis(a))]

\* what the files may hold and what the LLM does when asked about each
Docs ==
    {[readable |-> TRUE, pages |-> p, llm |-> l] : p \in DocPages, l \in LLM}
    \cup {[readable |-> FALSE, pages |-> <<>>, llm |-> "json"]}

InitBatch ==
    /\ ParserIdle
    /\ FormatIdle
    /\ pdf_files \in Listings
    /\ docs \in [Range(pdf_files) -> Docs]
    /\ bpc = "listed"
    /\ pos = 1
    /\ analyses = <<>>
    /\ results = <<>>
    /\ report = <<>>

\* no file was found
NoFiles ==
    /\ bpc = "listed"
    /\ pdf_files = <<>>
    /\ bpc' = "end"
    /\ UNCHANGED <<pvars, fvars, pdf_files, docs, pos, analyses, results, report>>

Sort ==
    /\ bpc = "listed"
    /\ pdf_files # <<>>
    /\ pdf_files' = SortReverse(pdf_files)
    /\ analyses' = <<>>
    /\ pos' = 1
    /\ bpc' = "loop"
    /\ UNCHANGED <<pvars, fvars, docs, results, report>>

\* the loop stops at the first file that fails
AnalyzeUntilFailure ==
    /\ bpc = "loop"
    /\ pos <= Len(pdf_files)
    /\ \E r \in {analyze_pdf(pdf_files[pos], docs[pdf_files[pos]])} :
           /\ results' = Append(results, [file |-> pdf_files[pos], status |-> r.status,
                                          asked |-> r.asked, events |-> r.events])
           /\ analyses' = IF r.status = "success" THEN Append(analyses, r.data)
                          ELSE analyses
           /\ pos' = IF r.status = "success" THEN pos + 1 ELSE Len(pdf_files) + 1
    /\ UNCHANGED <<pvars, fvars, pdf_files, docs, bpc, report>>

\* one iteration of the loop over the files
Analyze ==
    /\ bpc = "loop"
    /\ pos <= Len(pdf_files)
    /\ \E r \in {analyze_pdf(pdf_files[pos], docs[pdf_files[pos]])} :
           /\ results' = Append(results, [file |-> pdf_files[pos], status |-> r.status,
                                          asked |-> r.asked, events |-> r.events])
           /\ analyses' = IF r.status = "success" THEN Append(analyses, r.data)
                          ELSE analyses
    /\ pos' = pos + 1
    /\ UNCHANGED <<pvars, fvars, pdf_files, docs, bpc, report>>

\* after the loop, nothing to report
NoAnalyses ==
    /\ bpc = "loop"
    /\ pos > Len(pdf_files)
    /\ analyses = <<>>
    /\ bpc' = "end"
    /\ UNCHANGED <<pvars, fvars, pdf_files, docs, pos, analyses, results, report>>

\* the report is generated as soon as one document has succeeded
ReportBeforeEnd ==
    /\ bpc = "loop"
    /\ analyses # <<>>
    /\ report' = Append(report, ReportGroups(analyses))
    /\ bpc' = "reported"
    /\ UNCHANGED <<pvars, fvars, pdf_files, docs, pos, analyses, results>>

\* after the loop, the report is generated from the analyses
Report ==
    /\ bpc = "loop"
    /\ pos > Len(pdf_files)
    /\ analyses # <<>>
    /\ report' = Append(report, ReportGroups(analyses))
    /\ bpc' = "reported"
    /\ UNCHANGED <<pvars, fvars, pdf_files, docs, pos, analyses, results>>

NextBatch == NoFiles \/ Sort \/ Analyze \/ NoAnalyses \/ Report

SpecBatch == InitBatch /\ [][NextBatch]_vars
(***************************************************************************)
(* Properties of the parse.                                                *)
(***************************************************************************)
\* the lines of this parse that added a transaction, in their order
Added == SelectSeq(trace, LAMBDA e : e.outcome = "added")

\* the amount the line carries as a transaction is zero
ZeroAmount(line) ==
    Scanned[line].candidate.kind = "tx" /\ Scanned[line].candidate.tx.amount = 0

\* C1: every transaction of the transactions list has an amount greater than
\* zero: the list holds one transaction per line that added one, and a line
\* whose amount is zero, absent or unparseable is none of these lines.
C1_PositiveAmounts ==
    /\ \A n \in 1..Len(financial_data.transactions) :
           financial_data.transactions[n].amount > 0
    /\ pc \in {"lines", "returned", "done"} =>
           /\ Len(financial_data.transactions) = Len(Added)
           /\ \A n \in 1..Len(Added) :
                  /\ Scanned[Added[n].line].candidate.kind = "tx"
                  /\ Scanned[Added[n].line].candidate.tx.amount > 0

\* a statement is parsed to its end: a line with a zero amount was dropped
\* and another line gave a transaction
C1_ZeroDropped ==
    /\ pc = "done"
    /\ Len(financial_data.transactions) > 0
    /\ \E n \in 1..Len(trace) :
           /\ trace[n].outcome = "dropped"
           /\ trace[n].section # "account_summary"
           /\ ZeroAmount(trace[n].line)

\* C2: the values of expense_by_category add up to total_expenses.
C2_CategoriesAddUp ==
    pc = "done" => SumValues(summary.expense_by_category) = summary.total_expenses
\* C3: two parses of the same text give the same result, whatever was parsed
\* before and in between: nothing a parse wrote is seen by a later one.
C3_SameTextSameResult ==
    \A a, b \in 1..Len(history) :
        history[a].text = history[b].text => history[a] = history[b]

\* a statement with transactions is parsed, then another one with
\* transactions, then the first one again
C3_ParsedAgain ==
    /\ Len(history) >= 3
    /\ history[1].text = history[3].text
    /\ history[2].text # history[1].text
    /\ \A n \in 1..3 : ~history[n].raised /\ Len(history[n].data.transactions) > 0

CreditLimitText == "credit limit $5,000"

\* C4: a line that contains "credit limit $5,000" adds no transaction, in any
\* section, of a credit-card statement or not, whatever else is on the line:
\* the step of the loop on such a line leaves the transactions list and the
\* section lists as they were.
C4_CreditLimitExcluded ==
    [][(pc = "lines" /\ i <= Len(text) /\ Contains(text[i], CreditLimitText))
          => /\ financial_data'.transactions = financial_data.transactions
             /\ financial_data'.sections = financial_data.sections]_vars

\* a credit-card statement was parsed to its end with such a line in its
\* transactions section
C4_CreditLimitSeen ==
    /\ pc = "done"
    /\ is_credit_card
    /\ \E n \in 1..Len(trace) :
           /\ Contains(trace[n].line, CreditLimitText)
           /\ trace[n].section = "transactions"

StarbucksLine == "Mar 12  Mar 13  STARBUCKS STORE #123  $4.50"

\* C5: the line "Mar 12  Mar 13  STARBUCKS STORE #123  $4.50", in the
\* transactions section of a credit-card statement, gives one transaction with
\* the date "Mar 12", the description "STARBUCKS STORE #123", the amount 4.50,
\* the type expense and the category "other".
C5_StarbucksTransaction ==
    (/\ pc = "lines"
     /\ is_credit_card
     /\ trace # <<>>
     /\ trace[Len(trace)].line = StarbucksLine
     /\ trace[Len(trace)].section = "transactions")
        => /\ trace[Len(trace)].outcome = "added"
           /\ \E t \in {financial_data.transactions[Len(financial_data.transactions)]} :
                  /\ t.date = "Mar 12"
                  /\ t.description = "STARBUCKS STORE #123"
                  /\ t.amount = 450
                  /\ t.type = "expense"
                  /\ t.category = "other"

\* C6: the balance_info returned for a credit-card statement has net_change =
\* previous_balance + payments + other_credits + purchases + cash_advances +
\* fees + interest - new_balance, over the values the slots have after the
\* last line; the balance_info of any other statement has no net_change.
C6_NetChange ==
    pc \in {"returned", "done"} =>
        \E bi \in {financial_data.balance_info} :
            IF is_credit_card
            THEN /\ "net_change" \in DOMAIN bi
                 /\ bi.net_change = bi.previous_balance + bi.payments + bi.other_credits
                                    + bi.purchases + bi.cash_advances + bi.fees
                                    + bi.interest - bi.new_balance
            ELSE "net_change" \notin DOMAIN bi

\* a credit-card statement with payments and purchases is returned
C6_CardReturned ==
    /\ pc = "returned"
    /\ is_credit_card
    /\ financial_data.balance_info.payments > 0
    /\ financial_data.balance_info.purchases > 0

\* C7: the credit-card account summary with previous balance 100.00, payments
\* -50.00, purchases 200.00 and new balance 250.00 is parsed to payments 50.00,
\* previous_balance 100.00, purchases 200.00, new_balance 250.00 and
\* net_change 100.
C7_SummaryExample ==
    (pc = "done" /\ text = SummarySample) =>
        /\ financial_data.balance_info.payments = 5000
        /\ financial_data.balance_info.previous_balance = 10000
        /\ financial_data.balance_info.purchases = 20000
        /\ financial_data.balance_info.new_balance = 25000
        /\ financial_data.balance_info.net_change = 10000

\* tx is in the list txs
In(tx, txs) == \E k \in 1..Len(txs) : txs[k] = tx

\* C8 as stated: every transaction of the transactions list is in exactly one
\* of the three section lists, whatever the section of its line (no section
\* included), and the section lists hold transactions of the list only.
C8_EveryTransactionFiled ==
    pc \in {"returned", "done"} =>
        /\ \A n \in 1..Len(financial_data.transactions) :
               Cardinality({sec \in Sections :
                   In(financial_data.transactions[n], financial_data.sections[sec])}) = 1
        /\ \A sec \in Sections : \A k \in 1..Len(financial_data.sections[sec]) :
               In(financial_data.sections[sec][k], financial_data.transactions)

\* the transactions of txs whose lines, added, were in the section sec
RECURSIVE Under(_, _, _)
Under(txs, added, sec) ==
    IF txs = <<>> THEN <<>>
    ELSE Under(SubSeq(txs, 1, Len(txs) - 1), SubSeq(added, 1, Len(added) - 1), sec)
         \o (IF added[Len(txs)].section = sec THEN <<txs[Len(txs)]>> ELSE <<>>)

\* C8: the list of a section holds, in their order, the transactions of the
\* transactions list whose lines were in that section, and nothing else; a
\* transaction whose line comes before any section header is in the
\* transactions list and in no section list.
C8_FiledUnderItsSection ==
    pc \in {"lines", "returned", "done"} =>
        /\ Len(Added) = Len(financial_data.transactions)
        /\ \A sec \in Sections :
               financial_data.sections[sec] = Under(financial_data.transactions, Added, sec)

\* a statement is parsed to its end with a transaction before any section
\* header and a transaction in a section
C8_BothCases ==
    /\ pc = "done"
    /\ \E n \in 1..Len(Added) : Added[n].section = "none"
    /\ \E n \in 1..Len(Added) : Added[n].section \in Sections

\* MM/DD/YYYY
Canonical(d) ==
    /\ Len(d) = 10
    /\ \A n \in {1, 2, 4, 5, 7, 8, 9, 10} : At(d, n) \in Digit
    /\ \A n \in {3, 6} : At(d, n) = "/"

\* C9: after the period is resolved, start_date and end_date are both
\* "Not found" or both canonical MM/DD/YYYY strings, for every pattern that
\* can match.
C9_PeriodCanonical ==
    pc \in {"account", "lines", "returned", "done"} =>
        \E p \in {financial_data.statement_period} :
            \/ p.start_date = NotFound /\ p.end_date = NotFound
            \/ Canonical(p.start_date) /\ Canonical(p.end_date)

\* C10: when no period pattern matches, both period fields are "Not found"
\* and the parse goes on to the account info and the lines: it is never the
\* period that stops a parse, which ends early only on a line of the loop.
C10_UnresolvedPeriod ==
    (period_match = 0 /\ pc \notin {"start", "period"}) =>
        /\ financial_data.statement_period = [start_date |-> NotFound, end_date |-> NotFound]
        /\ pc = "raised" => (trace # <<>> /\ trace[Len(trace)].outcome = "raised")

\* a statement with no period is parsed to its end, with its account
\* information and a transaction
C10_ParsedWithoutPeriod ==
    /\ pc = "done"
    /\ period_match = 0
    /\ financial_data.statement_period.start_date = NotFound
    /\ financial_data.account_info.account_number # ""
    /\ Len(financial_data.transactions) > 0

\* C11: format_date normalises a date to MM/DD/YYYY: a date without a year
\* gets the year the statement is processed in, a two-digit year gets 20 in
\* front of it
C11_FormatDate ==
    formatted # <<>> =>
        /\ date_given = "Feb 28" => formatted[1] = "02/28/" \o today
        /\ date_given = "2/5" => formatted[1] = "02/05/" \o today
        /\ date_given = "2/5/23" => formatted[1] = "02/05/2023"

\* C12: an amount token that is not a number never makes the parse fail: no
\* line stops the loop with an exception, the line is dropped and the lines
\* after it are processed
C12_MalformedAmountDropped ==
    /\ \A k \in 1..Len(trace) : trace[k].outcome # "raised"
    /\ pc \in {"lines", "returned", "done"} => Len(trace) = i - 1
    /\ pc \in {"returned", "done"} => Len(trace) = Len(text)

(***************************************************************************)
(* Properties of the batch.                                                *)
(***************************************************************************)
\* no page of the document yields any text
NoText(doc) == doc.readable /\ \A n \in 1..Len(doc.pages) : doc.pages[n] = <<"">>

\* the analyses hold something of this file
Contributes(file) == \E n \in 1..Len(analyses) : analyses[n].metadata.file_path = file

\* C13: a document without any text is one failure of analyze_pdf: status
\* "error", the LLM is not asked about it, nothing of it is in the analyses
C13_EmptyDocumentFails ==
    \A k \in 1..Len(results) :
        NoText(docs[results[k].file]) =>
            /\ results[k].status = "error"
            /\ ~results[k].asked
            /\ ~Contributes(results[k].file)

\* what analyze_pdf returned with status "success", in the order of the loop
Succeeded == SelectSeq(results, LAMBDA r : r.status = "success")

\* C14: a document that fails does not stop process_files: the files of the
\* sorted list are processed once each and in that order, and analyses holds
\* the data of the documents that succeeded, in that order, and nothing else
C14_BatchContinues ==
    /\ bpc = "loop" => Len(results) = pos - 1
    /\ bpc \in {"end", "reported"} => Len(results) = Len(pdf_files)
    /\ bpc # "listed" => pdf_files = SortReverse(pdf_files)
    /\ \A k \in 1..Len(results) : results[k].file = pdf_files[k]
    /\ Len(analyses) = Len(Succeeded)
    /\ \A n \in 1..Len(analyses) :
           analyses[n] = analyze_pdf(Succeeded[n].file, docs[Succeeded[n].file]).data

C14_FailureThenSuccess ==
    /\ bpc = "reported"
    /\ Len(results) = 2
    /\ results[1].status = "error"
    /\ results[2].status = "success"
    /\ Len(analyses) = 1

\* a record that carries a warning
Warned(r) == \E k \in DOMAIN r : k \in {"warning", "warnings"}

\* C15: a credit-card statement whose net_change is not zero is parsed all
\* the same, and what is returned for it carries a warning; with a zero
\* net_change it carries none
C15_MismatchWarned ==
    (pc = "done" /\ is_credit_card) =>
        ((\/ Warned(financial_data)
          \/ Warned(financial_data.balance_info)
          \/ Warned(Analysis(financial_data, summary)))
         <=> financial_data.balance_info.net_change # 0)

\* the parser detects a credit-card statement in the text of this file
Detected(file) == IsCreditCard(Join(PageLines(docs[file].pages)))

CardFields == {"previous_balance", "payments", "other_credits", "purchases",
               "cash_advances", "fees", "interest", "new_balance"}

\* C16: a parsed statement has the credit-card fields of balance_info if and
\* only if the parser detected a credit-card statement, and the report puts
\* it in the credit-card group in that case and in the bank group otherwise
C16_OneBalanceShape ==
    /\ \A n \in 1..Len(analyses) :
           /\ Detected(analyses[n].metadata.file_path)
                  => CardFields \subseteq DOMAIN analyses[n].output.analysis.balance_info
           /\ ~Detected(analyses[n].metadata.file_path)
                  => CardFields \cap DOMAIN analyses[n].output.analysis.balance_info = {}
    /\ bpc = "reported" =>
           \A n \in 1..Len(analyses) :
               /\ analyses[n] \in Range(report[1].credit_card)
                      <=> Detected(analyses[n].metadata.file_path)
               /\ analyses[n] \in Range(report[1].bank)
                      <=> ~Detected(analyses[n].metadata.file_path)

\* the same document with another behaviour of the LLM
WithLLM(doc, l) == [doc EXCEPT !.llm = l]

\* C17: what analyze_pdf delivers of the core does not depend on the LLM:
\* whatever the LLM does, the status and the metadata and output are those
\* delivered when the LLM answers with JSON
C17_CoreWithoutLLM ==
    \A k \in 1..Len(results) : \A l \in LLM :
        LET file == results[k].file
            given == analyze_pdf(file, docs[file])
            other == analyze_pdf(file, WithLLM(docs[file], l))
        IN  /\ given.status = other.status
            /\ given.status = "success" =>
                   /\ given.data.metadata = other.data.metadata
                   /\ given.data.output = other.data.output
            /\ (~run(file, docs[file]).raised /\ run(file, docs[file]).raw_text # "")
                   => results[k].status = "success" /\ Contributes(file)

\* C18: the categories of a result of _run are the categories of its
\* transactions, each once and none missing
C18_CategoriesOfTransactions ==
    pc = "done" =>
        Analysis(financial_data, summary).categories
            = {financial_data.transactions[n].category :
                   n \in 1..Len(financial_data.transactions)}

\* the line is a section header, and the section it names
IsHeader(line) ==
    \/ ReSearchI(SectionHeaderRe, line).ok
    \/ Contains(line, "Account Summary")
    \/ Contains(line, "ACCOUNT NAME")

NamedBy(title) ==
    CASE title = "payments, credits and adjustments" -> "payments_credits"
      [] title = "transactions" -> "transactions"
      [] OTHER -> "account_summary"

Named(line, m) == IF m.ok THEN NamedBy(Lower(Group0(m, line))) ELSE "account_summary"

\* C19: the current section is none at the first line; a header line makes
\* it the section the header names, whatever it was; any other line leaves
\* it as it is; once it is not none it is never none again
C19_SectionClassifier ==
    [][(pc = "lines" /\ i <= Len(text)) =>
           /\ i = 1 => current_section = "none"
           /\ IsHeader(text[i])
                  => current_section' = Named(text[i], ReSearchI(SectionHeaderRe, text[i]))
           /\ ~IsHeader(text[i]) => current_section' = current_section
           /\ current_section # "none" => current_section' # "none"]_vars

\* one of the filters skips the line
Filtered(line) == IsBlankOrColumnHeader(line) \/ IsBoilerplate(line) \/ IsAmountOnly(line)

\* the line holds a date and an amount
DateAndAmount(line) == ReSearch(DateRe, line).ok /\ ReSearch(AmountRe, line).ok

\* C20: a line consumed as a section header, or skipped by a filter, adds no
\* transaction, adds nothing to a section bucket and changes no slot of
\* balance_info, whatever it holds; a filtered line leaves the current
\* section as it is
C20_ConsumedLinesChangeNothing ==
    [][(pc = "lines" /\ i <= Len(text) /\ (IsHeader(text[i]) \/ Filtered(text[i]))) =>
           /\ financial_data'.transactions = financial_data.transactions
           /\ financial_data'.sections = financial_data.sections
           /\ financial_data'.balance_info = financial_data.balance_info
           /\ ~IsHeader(text[i]) => current_section' = current_section]_vars

C20_ConsumedWithDateAndAmount ==
    \E a, b \in 1..Len(trace) :
        /\ trace[a].outcome = "header"
        /\ DateAndAmount(trace[a].line)
        /\ trace[b].outcome = "skipped"
        /\ DateAndAmount(trace[b].line)
        /\ trace[b].section = "transactions"

\* the branches of the summary chain whose keyword is in the line
KeywordHits(line) ==
    {n \in 1..Len(SummaryKeywords) : Contains(Lower(line), SummaryKeywords[n][1])}

\* the amount of the line, as float() reads its first amount token
FirstAmount(line) == AmountOf(Group0(ReSearch(AmountRe, line), line)).v

\* C21: while the section is account_summary, a line that holds one of the
\* eight keywords and an amount sets the slot of that keyword to the amount,
\* and a line that none of the sub-patterns recognizes changes nothing
C21_SummarySlots ==
    [][(/\ pc = "lines"
        /\ i <= Len(text)
        /\ current_section = "account_summary"
        /\ ~IsHeader(text[i])) =>
           /\ (KeywordHits(text[i]) # {} /\ ReSearch(AmountRe, text[i]).ok) =>
                  \E n \in KeywordHits(text[i]) :
                      financial_data'.balance_info[SummaryKeywords[n][2]]
                          = FirstAmount(text[i])
           /\ (/\ KeywordHits(text[i]) = {}
               /\ ~ReSearch(BankAccountRe, text[i]).ok
               /\ ~ReSearch(AllAccountsRe, text[i]).ok) =>
                  financial_data' = financial_data]_vars

\* C22: a line processed while the section is account_summary appends no
\* transaction, to the list or to a bucket, so sections[account_summary]
\* stays empty; a line processed in another section appends no entry to
\* balance_info.accounts
C22_SummaryOrTransaction ==
    [][(pc = "lines" /\ i <= Len(text)) =>
           /\ current_section = "account_summary" =>
                  /\ financial_data'.transactions = financial_data.transactions
                  /\ financial_data'.sections = financial_data.sections
           /\ current_section # "account_summary" =>
                  financial_data'.balance_info.accounts = financial_data.balance_info.accounts
           /\ financial_data'.sections.account_summary = <<>>]_vars

C22_TransactionLineInSummary ==
    /\ pc = "done"
    /\ \E a \in 1..Len(trace) :
           /\ trace[a].section = "account_summary"
           /\ trace[a].outcome = "ignored"
           /\ ReSearch(TransactionLineRe, trace[a].line).ok
           /\ FirstAmount(trace[a].line) > 0

\* the merchant table: the fragments of each entry and its category
MerchantTable ==
    << <<{"amazon"}, "shopping">>, <<{"restaurant", "cafe"}, "dining">>,
       <<{"apple.com"}, "subscription">>, <<{"godaddy"}, "business">>,
       <<{"garage"}, "parking">>, <<{"wegmans"}, "groceries">> >>

\* the entries of the table that match a description
Merchants(description) ==
    {n \in 1..Len(MerchantTable) :
        \E frag \in MerchantTable[n][1] : Contains(Lower(description), frag)}

MerchantCategory(description) ==
    IF Merchants(description) = {} THEN "other"
    ELSE MerchantTable[MinOf(Merchants(description))][2]

\* C23: in a credit-card statement a transaction kept from a line of the
\* payments_credits section is a payment of category "payment", and one kept
\* from a line of the transactions section is an expense whose category is
\* that of the first entry of the merchant table that matches its
\* description, or "other"; the section at the time of the line decides
C23_TypedBySection ==
    is_credit_card =>
        /\ Len(Added) = Len(financial_data.transactions)
        /\ \A n \in 1..Len(financial_data.transactions) :
               /\ Added[n].section = "payments_credits" =>
                      /\ financial_data.transactions[n].type = "payment"
                      /\ financial_data.transactions[n].category = "payment"
               /\ Added[n].section = "transactions" =>
                      /\ financial_data.transactions[n].type = "expense"
                      /\ financial_data.transactions[n].category
                             = MerchantCategory(financial_data.transactions[n].description)

C23_PaymentAndPurchases ==
    /\ pc = "done"
    /\ is_credit_card
    /\ \E a, b, c \in 1..Len(financial_data.transactions) :
           /\ Added[a].section = "payments_credits"
           /\ Added[b].section = "transactions"
           /\ financial_data.transactions[b].category = "dining"
           /\ Contains(Lower(financial_data.transactions[b].description), "apple.com")
           /\ Added[c].section = "transactions"
           /\ financial_data.transactions[c].category = "other"
           /\ a < b

\* the sum of the amounts of a list of transactions
RECURSIVE Total(_)
Total(txs) == IF txs = <<>> THEN 0 ELSE Head(txs).amount + Total(Tail(txs))

\* no line of the parse was processed in the account summary
NoSummaryLines == \A k \in 1..Len(trace) : trace[k].section # "account_summary"

\* C24: in a credit-card statement a line adds its amount to payments or to
\* purchases if and only if it is kept as a transaction; so, without summary
\* lines, the final purchases and payments are the sums of the amounts of
\* sections[transactions] and of sections[payments_credits]
C24_AccumulationAndRetention ==
    [][(pc = "lines" /\ is_credit_card) =>
           /\ (i <= Len(text) /\ current_section \in {"payments_credits", "transactions"}) =>
                  ((\/ financial_data'.balance_info.payments
                           # financial_data.balance_info.payments
                    \/ financial_data'.balance_info.purchases
                           # financial_data.balance_info.purchases)
                   <=> Len(financial_data'.transactions) > Len(financial_data.transactions))
           /\ (i > Len(text) /\ NoSummaryLines) =>
                  /\ financial_data'.balance_info.purchases
                         = Total(financial_data'.sections.transactions)
                  /\ financial_data'.balance_info.payments
                         = Total(financial_data'.sections.payments_credits)]_vars

\* pattern n of period_patterns matches somewhere in the text
Matches(n) == Search(IgnoreCase[n], Lower(Join(text))).ok

\* where in the text the match of pattern n starts
MatchAt(n) == Search(IgnoreCase[n], Lower(Join(text))).b

\* C25: the period comes from the first pattern of the list that matches
\* anywhere in the text, wherever the matches are: no pattern before it
\* matches, and none is used when no pattern matches
C25_FirstPatternWins ==
    pc = "account" =>
        /\ period_match \in 0..Len(period_patterns)
        /\ period_match = 0 => \A n \in 1..Len(period_patterns) : ~Matches(n)
        /\ period_match # 0 =>
               /\ Matches(period_match)
               /\ \A n \in 1..(period_match - 1) : ~Matches(n)

C25_LaterPatternMatchesFirstInText ==
    /\ pc = "account"
    /\ period_match # 0
    /\ \E n \in (period_match + 1)..Len(period_patterns) :
           Matches(n) /\ MatchAt(n) < MatchAt(period_match)

\* the pattern that matched captures one date
SingleAnchor == period_match # 0 /\ period_patterns[period_match].groups = 1

\* the date the matching pattern captured
Anchor == Group(Search(IgnoreCase[period_match], Lower(Join(text))), Join(text), 1)

\* day 1 of the month and year of the canonical date d
FirstOfMonth(d) == SubSeq(d, 1, 3) \o "01" \o SubSeq(d, 6, 10)

\* C26: when the matching pattern captures one date, resolving the period
\* does not raise, the end date is that date and the start date is day 1
\* of its month and year, whether the date is written with slashes, with
\* dashes or as "Mon D"
C26_AnchorDate ==
    SingleAnchor =>
        /\ ~(pc = "raised" /\ trace = <<>>)
        /\ pc = "account" =>
               /\ financial_data.statement_period.end_date = format_date(Anchor)
               /\ Canonical(format_date(Anchor)) =>
                      financial_data.statement_period.start_date
                          = FirstOfMonth(format_date(Anchor))

\* what was done before the core parsed the text of the k-th file processed
BeforeCore(k) ==
    {results[k].events[n] : n \in {m \in 1..Len(results[k].events) :
                                       \E c \in (m + 1)..Len(results[k].events) :
                                           results[k].events[c] = "core"}}

\* C27: the core does not parse a document whose file is unreadable or whose
\* text is empty, and the text of a document is checked for being empty
\* before the core parses it
C27_FailuresBeforeCore ==
    \A k \in 1..Len(results) :
        /\ (\/ ~docs[results[k].file].readable
            \/ Join(PageLines(docs[results[k].file].pages)) = "")
               => "core" \notin Range(results[k].events)
        /\ "core" \in Range(results[k].events) => "check" \in BeforeCore(k)

\* C28: no transaction has type income: every transaction is an expense or
\* a payment, so total_income is 0, income_by_category is empty and
\* net_cash_flow is minus total_expenses in every result of _run
C28_NoIncome ==
    /\ \A n \in 1..Len(financial_data.transactions) :
           financial_data.transactions[n].type \in {"expense", "payment"}
    /\ pc = "done" =>
           /\ summary.total_income = 0
           /\ DOMAIN summary.income_by_category = {}
           /\ summary.net_cash_flow = 0 - summary.total_expenses

C28_PaymentsAndExpenses ==
    /\ pc = "done"
    /\ summary.total_expenses > 0
    /\ \E a, b \in 1..Len(financial_data.transactions) :
           /\ financial_data.transactions[a].type = "payment"
           /\ financial_data.transactions[b].type = "expense"

RecurringWords == {"monthly", "subscription", "recurring", "automatic", "membership"}

\* the transactions of txs that are recurring, in their order
Recurring(txs) == SelectSeq(txs, LAMBDA t : t.is_recurring)

\* C29: a kept transaction is recurring if and only if its line holds one
\* of the five words, in any case, whatever the section and the kind of
\* statement; recurring_items has one entry, category and amount, for each
\* recurring transaction, in the order of the transactions
C29_RecurringByLine ==
    /\ Len(Added) = Len(financial_data.transactions)
    /\ \A n \in 1..Len(financial_data.transactions) :
           financial_data.transactions[n].is_recurring
               <=> \E w \in RecurringWords : Contains(Lower(Added[n].line), w)
    /\ pc = "done" =>
           /\ Len(summary.recurring_items) = Len(Recurring(financial_data.transactions))
           /\ \A n \in 1..Len(summary.recurring_items) :
                  /\ summary.recurring_items[n][1]
                         = Recurring(financial_data.transactions)[n].category
                  /\ summary.recurring_items[n][2]
                         = Recurring(financial_data.transactions)[n].amount

C29_RecurringAndNot ==
    /\ pc = "done"
    /\ summary.recurring_items # <<>>
    /\ \E a, b \in 1..Len(financial_data.transactions) :
           /\ financial_data.transactions[a].is_recurring
           /\ Contains(Added[a].line, "monthly")
           /\ ~financial_data.transactions[b].is_recurring

\* C30: process_files generates the report at most once, only after every
\* file of the list has been processed, and exactly when one document at
\* least succeeded; with no file, or with failures only, it returns with no
\* report
C30_ReportOnceAfterAll ==
    /\ Len(report) <= 1
    /\ report # <<>> =>
           /\ bpc = "reported"
           /\ pos > Len(pdf_files)
           /\ Len(results) = Len(pdf_files)
           /\ report[1] = ReportGroups(analyses)
    /\ bpc \in {"end", "reported"} => (report # <<>> <=> Succeeded # <<>>)
    /\ bpc = "end" => pdf_files = <<>> \/ Len(results) = Len(pdf_files)
    /\ bpc = "loop" /\ pos > Len(pdf_files) => ENABLED (NoAnalyses \/ Report)

C30_ReportAfterLastFileFails ==
    /\ Len(report) = 1
    /\ Len(results) = MaxFiles
    /\ results[1].status = "success"
    /\ results[MaxFiles].status = "error"
====
